---- MODULE Spec2Model ----
(***************************************************************************)
(* Model of manila/share/driver.py: ExecuteMixin._try_execute (the retry   *)
(* loop around the execution primitive) and ShareDriver (abstract          *)
(* operations, network allocation guard, cached share stats).              *)
(***************************************************************************)
EXTENDS Integers, Sequences, FiniteSets, TLC

\* ------------------------------------------------------------------ bounds
\* Largest configured num_shell_tries explored.
MaxTries == 3

\* Largest count argument of allocate_network explored.
MaxCount == 2

\* Most calls of the network service recorded in one behaviour.
MaxNetCalls == 2

\* Longest log of network service calls explored for the share-server
\* lifecycle, which is run with one argument vector per server.
MaxLifecycleCalls == 4

\* ------------------------------------------------------------ value domains
\* Python's None (an unset option, an absent argument).
None == "None"

\* Caller threads of one driver object (greenthreads of the share manager).
Threads == {"t1", "t2"}

\* Positional command words handed to _try_execute.
Commands == {"mount", "exportfs"}

\* Keyword options handed to _try_execute: a dict as a set of <<key, value>>.
ExecKwargs == {{}, {<<"run_as_root", "True">>}}

\* What one invocation of self._execute can do: return, raise
\* exception.ProcessExecutionError, or raise any other exception.
Outcomes == {"ok", "ProcessExecutionError", "OtherError"}

\* num_shell_tries is a cfg.IntOpt: any integer can be configured.
TriesValues == (0 - 1)..MaxTries

\* kwargs.get('configuration', None) when the keyword is absent: the driver
\* holds None, which has no option at all.
NoConfiguration ==
    [given |-> FALSE, num_shell_tries |-> 0, reserved_share_percentage |-> 0,
     share_backend_name |-> None]

\* The configuration objects explored for the retry loop: every
\* num_shell_tries, the other options at their defaults.
ExecConfigurations ==
    {NoConfiguration} \cup [given : {TRUE},
                            num_shell_tries : TriesValues,
                            reserved_share_percentage : {0},
                            share_backend_name : {None}]

VARIABLES
    configuration,  \* self.configuration
    pc,             \* per thread: position inside _try_execute
    tries,          \* per thread: the local variable tries
    args,           \* per thread: (*command, **kwargs) of the running call
    trace,          \* per thread: invocations of self._execute and time.sleep
    result,         \* per thread: how the call ended
    backend,        \* what the backend class makes of get_network_allocations_number
    stats,          \* self._stats: {} while the attribute does not exist, else {data}
    netCalls,       \* the calls received by self.network_api, in order
    call,           \* the latest ShareDriver call: operation, arguments, outcome
    refreshed,      \* history: what the latest completed refresh computed
    reads,          \* history: outcomes of get_share_stats(refresh=False) since
                    \* the latest refresh (the last two)
    lifecycle,      \* history: how far the latest calls have gone through
                    \* allocate_network, setup_server, teardown_server,
                    \* deallocate_network for one share server
    gss,            \* per thread: a get_share_stats call running statement
                    \* by statement (position, the local dict data, result)
    peer            \* a second ShareDriver object: its configuration, _stats

execVars == <<pc, tries, args, trace, result>>
driverVars == <<backend, stats, netCalls, call, refreshed, reads, lifecycle>>
sideVars == <<gss, peer>>
vars == <<configuration, pc, tries, args, trace, result,
          backend, stats, netCalls, call, refreshed, reads, lifecycle,
          gss, peer>>

\* ------------------------------------------------------------ _try_execute
NoResult == [kind |-> "none", class |-> None, attempt |-> 0]
ReturnTrue == [kind |-> "return", class |-> "True", attempt |-> 0]
Raise(class, attempt) == [kind |-> "raise", class |-> class, attempt |-> attempt]

NoArgs == [command |-> None, kwargs |-> {}]

\* The event recorded for self._execute(*command, **kwargs).
ExecuteEvent(a, outcome) ==
    [kind |-> "execute", command |-> a.command, kwargs |-> a.kwargs,
     outcome |-> outcome]

\* The event recorded for time.sleep(secs).
SleepEvent(secs) == [kind |-> "sleep", secs |-> secs]

\* A handler that catches every exception instead of ProcessExecutionError.
IsTransientAnyFailure(outcome) == outcome # "ok"

\* except exception.ProcessExecutionError: the only class that is retried.
IsTransient(outcome) == outcome = "ProcessExecutionError"

\* The comparison written with == : a limit below 1 is never met.
TriesExhaustedEqual(n, limit) == n = limit

\* The comparison written with > : one attempt too many.
TriesExhaustedLate(n, limit) == n > limit

\* The comparison made before the increment took effect: one attempt too few.
TriesExhaustedEarly(n, limit) == n + 1 >= limit

\* if tries >= self.configuration.num_shell_tries: raise
TriesExhausted(n, limit) == n >= limit

\* A linear backoff, tries * 2, in place of the square.
BackoffLinear(n) == n * 2

\* time.sleep(tries ** 2)
Backoff(n) == n * n

\* A counter kept on the object between calls instead of a fresh local.
InitialTriesKept(previous) == previous

\* tries = 0: the counter is a local of the call, whatever it was before.
InitialTries(previous) == 0

\* A caller enters _try_execute: tries = 0, then the while loop.
try_execute(t, command, kwargs) ==
    /\ pc[t] \in {"idle", "returned", "raised"}
    /\ pc' = [pc EXCEPT ![t] = "execute"]
    /\ tries' = [tries EXCEPT ![t] = InitialTries(tries[t])]
    /\ args' = [args EXCEPT ![t] = [command |-> command, kwargs |-> kwargs]]
    /\ trace' = [trace EXCEPT ![t] = <<>>]
    /\ result' = [result EXCEPT ![t] = NoResult]
    /\ UNCHANGED <<configuration, driverVars, sideVars>>

\* One pass of the try block: self._execute(...) and what follows it up to
\* the return, the raise or the call of time.sleep.
execute(t, outcome) ==
    /\ pc[t] = "execute"
    /\ LET attempt == Cardinality({i \in 1..Len(trace[t]) :
                                      trace[t][i].kind = "execute"}) + 1
           tr == Append(trace[t], ExecuteEvent(args[t], outcome))
       IN
       /\ trace' = [trace EXCEPT ![t] = tr]
       /\ IF outcome = "ok"
          THEN /\ pc' = [pc EXCEPT ![t] = "returned"]
               /\ result' = [result EXCEPT ![t] = ReturnTrue]
               /\ UNCHANGED tries
          ELSE IF IsTransient(outcome)
          THEN /\ tries' = [tries EXCEPT ![t] = tries[t] + 1]
               /\ IF ~configuration.given
                  THEN \* None has no attribute num_shell_tries
                       /\ pc' = [pc EXCEPT ![t] = "raised"]
                       /\ result' = [result EXCEPT ![t] =
                                        Raise("AttributeError", attempt)]
                  ELSE IF TriesExhausted(tries[t] + 1,
                                         configuration.num_shell_tries)
                  THEN /\ pc' = [pc EXCEPT ![t] = "raised"]
                       /\ result' = [result EXCEPT ![t] =
                                        Raise(outcome, attempt)]
                  ELSE /\ pc' = [pc EXCEPT ![t] = "sleep"]
                       /\ UNCHANGED result
          ELSE /\ pc' = [pc EXCEPT ![t] = "raised"]
               /\ result' = [result EXCEPT ![t] = Raise(outcome, attempt)]
               /\ UNCHANGED tries
    /\ UNCHANGED <<configuration, args, driverVars, sideVars>>

\* time.sleep(tries ** 2), then back to the top of the while loop.
sleep(t) ==
    /\ pc[t] = "sleep"
    /\ trace' = [trace EXCEPT ![t] = Append(trace[t], SleepEvent(Backoff(tries[t])))]
    /\ pc' = [pc EXCEPT ![t] = "execute"]
    /\ UNCHANGED <<configuration, tries, args, result, driverVars, sideVars>>

\* ------------------------------------------------------------- ShareDriver
\* Request contexts, share servers (and their ids) and share networks: opaque
\* values the driver hands on without reading them.
Contexts == {"ctx_admin"}
ShareServers == {"server_1", "server_2"}
ShareNetworks == {"share_net_1"}

\* Extra keyword arguments of allocate_network: a dict as a set of pairs.
ExtraKwargs == {{}, {<<"label", "user">>}}

\* The count argument of allocate_network: {} is the default None, {n} is n.
NoCount == {}
Counts == {NoCount} \cup {{n} : n \in 0..MaxCount}

\* get_network_allocations_number as the driver class has it: the base
\* class raises NotImplementedError, a backend overrides it with a number.
\* The numbers explored: 0 (networking left to Nova), 1 and 3 interfaces.
BaseBackend == [implemented |-> FALSE, number |-> 0]
BackendNumbers == {0, 1, 3}
Backends == {BaseBackend} \cup [implemented : {TRUE}, number : BackendNumbers]

\* Configurations explored for the driver: every share_backend_name (unset,
\* empty, named) and reserved_share_percentage, num_shell_tries at its default.
DriverConfigurations ==
    {NoConfiguration} \cup [given : {TRUE},
                            num_shell_tries : {3},
                            reserved_share_percentage : {0, 25},
                            share_backend_name : {None, "", "backend_A"}]

\* What network_api.allocate_network / deallocate_network can do.
NetOutcomes == {"ok", "NetworkError"}

Returned(v) == [kind |-> "return", class |-> None, value |-> {v}]
ReturnedNone == [kind |-> "return", class |-> None, value |-> {}]
Raised(class) == [kind |-> "raise", class |-> class, value |-> {}]

\* The record of a driver call: net is how the network service answered
\* within it, None when the call did not reach the service.
NoCall == [op |-> None, args |-> <<>>, outcome |-> ReturnedNone, net |-> None]

\* No share-server lifecycle under way.
NoLifecycle == [phase |-> 0, server |-> None, mark |-> 0]

\* The lifecycle history after the driver call c, made when the network
\* service had seen `seen` calls: phase k says the latest k calls were the
\* first k of allocate_network (count left to the backend, reaching the
\* service), setup_server, teardown_server, deallocate_network for `server`,
\* each returning; mark is the number of service calls before the first.
Observe(lc, c, seen) ==
    IF /\ c.op = "allocate_network"
       /\ c.args.count = {}
       /\ c.net = "ok"
    THEN [phase |-> 1, server |-> c.args.share_server, mark |-> seen]
    ELSE IF lc.phase = 1 /\ c.op = "setup_server"
    THEN [lc EXCEPT !.phase = 2]
    ELSE IF lc.phase = 2 /\ c.op = "teardown_server"
    THEN [lc EXCEPT !.phase = 3]
    ELSE IF /\ lc.phase = 3
            /\ c.op = "deallocate_network"
            /\ c.args.share_server_id = lc.server
            /\ c.outcome.kind = "return"
    THEN [lc EXCEPT !.phase = 4]
    ELSE NoLifecycle

\* A test "is not None" in place of the truth value.
TruthyStrNotNone(s) == s # None

\* Truth value of a Python string or None: '' and None are false.
TruthyStr(s) == s # None /\ s # ""

\* A test "is not None" in place of the truth value of the count.
TruthyIntNotNone(n) == n >= 0

\* The guard inverted: only 0 passes.
TruthyIntInverted(n) == n = 0

\* Truth value of a Python int.
TruthyInt(n) == n # 0

\* configuration.safe_get(name) for a registered option: its value.
safe_get(conf, name) == conf[name]

\* A snapshot whose reserved_percentage follows the configured
\* reserved_share_percentage.
ShareStatusReserved(conf) ==
    LET backend_name == safe_get(conf, "share_backend_name") IN
    [share_backend_name |-> IF TruthyStr(backend_name) THEN backend_name
                            ELSE "Generic_NFS",
     vendor_name |-> "Open Source",
     driver_version |-> "1.0",
     storage_protocol |-> None,
     total_capacity_gb |-> "infinite",
     free_capacity_gb |-> "infinite",
     reserved_percentage |-> safe_get(conf, "reserved_share_percentage"),
     QoS_support |-> FALSE]

\* The dict built by _update_share_status.
ShareStatus(conf) ==
    LET backend_name == safe_get(conf, "share_backend_name") IN
    [share_backend_name |-> IF TruthyStr(backend_name) THEN backend_name
                            ELSE "Generic_NFS",
     vendor_name |-> "Open Source",
     driver_version |-> "1.0",
     storage_protocol |-> None,
     total_capacity_gb |-> "infinite",
     free_capacity_gb |-> "infinite",
     reserved_percentage |-> 0,
     QoS_support |-> FALSE]

\* The stats computed on first use when no refresh has run yet.
StatsAfterLazy(refresh, cur, conf) ==
    IF refresh \/ cur = {} THEN {ShareStatus(conf)} ELSE cur

\* The stats recomputed on every call, whatever refresh says.
StatsAfterAlways(refresh, cur, conf) == {ShareStatus(conf)}

\* self._stats after the body of get_share_stats(refresh): rewritten by
\* _update_share_status when refresh is true, untouched otherwise.
StatsAfter(refresh, cur, conf) == IF refresh THEN {ShareStatus(conf)} ELSE cur

\* An abstract operation written as a stub that passes.
AbstractBodyPass == ReturnedNone

\* The body of every abstract operation: raise NotImplementedError().
AbstractBody == Raised("NotImplementedError")

\* A body that raises like the abstract operations.
PassBodyRaise == Raised("NotImplementedError")

\* The body of the operations with a default: pass.
PassBody == ReturnedNone

\* self.get_network_allocations_number()
NetworkAllocationsNumber(b) ==
    IF b.implemented THEN Returned(b.number) ELSE Raised("NotImplementedError")

\* The backend's number whatever the caller supplied.
EffectiveCountBackend(count, b) == b.number

\* A count that defaults to one allocation instead of the backend's number.
EffectiveCountOne(count, b) ==
    IF count = NoCount THEN 1 ELSE CHOOSE n \in count : TRUE

\* The count allocate_network works with: the argument, or when it is None
\* the backend's number.
EffectiveCount(count, b) ==
    IF count = NoCount THEN b.number ELSE CHOOSE n \in count : TRUE

\* kwargs.update(count=count)
KwargsUpdate(kwargs, key, value) ==
    {kv \in kwargs : kv[1] # key} \cup {<<key, value>>}

\* network_api.allocate_network(context, share_server, share_network, **kwargs)
NetAllocate(context, share_server, share_network, kwargs) ==
    [op |-> "allocate_network", context |-> context,
     share_server |-> share_server, share_network |-> share_network,
     kwargs |-> kwargs]

\* The two arguments of the deallocation passed in the wrong order.
NetDeallocateSwapped(context, share_server_id) ==
    [op |-> "deallocate_network", context |-> share_server_id,
     share_server_id |-> context]

\* network_api.deallocate_network(context, share_server_id)
NetDeallocate(context, share_server_id) ==
    [op |-> "deallocate_network", context |-> context,
     share_server_id |-> share_server_id]

\* A failure of the network service swallowed by the driver.
NetResultSwallow(o) == ReturnedNone

\* How a call of the network service ends for the driver's caller.
NetResult(o) == IF o = "ok" THEN ReturnedNone ELSE Raised(o)

\* A call that touches neither the network service nor the stats.
Plain(op, outcome) ==
    /\ call' = [op |-> op, args |-> <<>>, outcome |-> outcome, net |-> None]
    /\ lifecycle' = Observe(lifecycle, call', Len(netCalls))
    /\ UNCHANGED <<configuration, execVars, backend, stats, netCalls,
                   refreshed, reads, sideVars>>

create_share == Plain("create_share", AbstractBody)
create_share_from_snapshot == Plain("create_share_from_snapshot", AbstractBody)
create_snapshot == Plain("create_snapshot", AbstractBody)
delete_share == Plain("delete_share", AbstractBody)
delete_snapshot == Plain("delete_snapshot", AbstractBody)
ensure_share == Plain("ensure_share", AbstractBody)
allow_access == Plain("allow_access", AbstractBody)
deny_access == Plain("deny_access", AbstractBody)

check_for_setup_error == Plain("check_for_setup_error", PassBody)
do_setup == Plain("do_setup", PassBody)
setup_server == Plain("setup_server", PassBody)
teardown_server == Plain("teardown_server", PassBody)

get_network_allocations_number ==
    Plain("get_network_allocations_number", NetworkAllocationsNumber(backend))

\* get_share_stats handing out the cached snapshot and dropping it.
get_share_stats_consuming(refresh) ==
    LET noConf == refresh /\ ~configuration.given
        after == IF noConf THEN stats
                 ELSE StatsAfter(refresh, stats, configuration)
        fails == noConf \/ after = {}
        outcome == IF fails THEN Raised("AttributeError")
                   ELSE [kind |-> "return", class |-> None, value |-> after]
    IN
    /\ stats' = IF refresh THEN after ELSE {}
    /\ call' = [op |-> "get_share_stats", args |-> [refresh |-> refresh],
                outcome |-> outcome, net |-> None]
    /\ refreshed' = IF refresh /\ ~fails THEN after ELSE refreshed
    /\ reads' = IF refresh THEN <<>>
                ELSE IF Len(reads) < 2 THEN Append(reads, outcome)
                ELSE <<reads[2], outcome>>
    /\ lifecycle' = Observe(lifecycle, call', Len(netCalls))
    /\ UNCHANGED <<configuration, execVars, backend, netCalls, sideVars>>

get_share_stats(refresh) ==
    LET noConf == refresh /\ ~configuration.given
        after == IF noConf THEN stats
                 ELSE StatsAfter(refresh, stats, configuration)
        fails == noConf \/ after = {}
        outcome == IF fails THEN Raised("AttributeError")
                   ELSE [kind |-> "return", class |-> None, value |-> after]
    IN
    /\ stats' = after
    /\ call' = [op |-> "get_share_stats", args |-> [refresh |-> refresh],
                outcome |-> outcome, net |-> None]
    /\ refreshed' = IF refresh /\ ~fails THEN after ELSE refreshed
    /\ reads' = IF refresh THEN <<>>
                ELSE IF Len(reads) < 2 THEN Append(reads, outcome)
                ELSE <<reads[2], outcome>>
    /\ lifecycle' = Observe(lifecycle, call', Len(netCalls))
    /\ UNCHANGED <<configuration, execVars, backend, netCalls, sideVars>>

allocate_network(context, share_server, share_network, count, kwargs, net, limit) ==
    LET a == [context |-> context, share_server |-> share_server,
              share_network |-> share_network, count |-> count,
              kwargs |-> kwargs]
        n == EffectiveCount(count, backend)
    IN
    /\ IF count = NoCount /\ ~backend.implemented
       THEN /\ call' = [op |-> "allocate_network", args |-> a,
                        outcome |-> NetworkAllocationsNumber(backend),
                        net |-> None]
            /\ UNCHANGED netCalls
       ELSE IF TruthyInt(n)
       THEN /\ Len(netCalls) < limit
            /\ netCalls' = Append(netCalls,
                   NetAllocate(context, share_server, share_network,
                               KwargsUpdate(kwargs, "count", n)))
            /\ call' = [op |-> "allocate_network", args |-> a,
                        outcome |-> NetResult(net), net |-> net]
       ELSE /\ call' = [op |-> "allocate_network", args |-> a,
                        outcome |-> ReturnedNone, net |-> None]
            /\ UNCHANGED netCalls
    /\ lifecycle' = Observe(lifecycle, call', Len(netCalls))
    /\ UNCHANGED <<configuration, execVars, backend, stats, refreshed, reads,
                   sideVars>>

deallocate_network(context, share_server_id, net, limit) ==
    LET a == [context |-> context, share_server_id |-> share_server_id] IN
    /\ IF ~backend.implemented
       THEN /\ call' = [op |-> "deallocate_network", args |-> a,
                        outcome |-> NetworkAllocationsNumber(backend),
                        net |-> None]
            /\ UNCHANGED netCalls
       ELSE IF TruthyInt(backend.number)
       THEN /\ Len(netCalls) < limit
            /\ netCalls' = Append(netCalls,
                                  NetDeallocate(context, share_server_id))
            /\ call' = [op |-> "deallocate_network", args |-> a,
                        outcome |-> NetResult(net), net |-> net]
       ELSE /\ call' = [op |-> "deallocate_network", args |-> a,
                        outcome |-> ReturnedNone, net |-> None]
            /\ UNCHANGED netCalls
    /\ lifecycle' = Observe(lifecycle, call', Len(netCalls))
    /\ UNCHANGED <<configuration, execVars, backend, stats, refreshed, reads,
                   sideVars>>

\* ------------------------------------- get_share_stats, statement by statement
\* The keys of the dict data, in the order _update_share_status stores them.
StatsKeys ==
    <<"share_backend_name", "vendor_name", "driver_version",
      "storage_protocol", "total_capacity_gb", "free_capacity_gb",
      "reserved_percentage", "QoS_support">>

\* The local dict data once its first n keys are stored.
DataAfter(conf, n) ==
    [k \in {StatsKeys[i] : i \in 1..n} |-> ShareStatus(conf)[k]]

NoRead == [kind |-> "none", class |-> None, value |-> {}, overlap |-> FALSE]

GssIdle == [pc |-> "idle", refresh |-> FALSE, written |-> 0, result |-> NoRead]

\* The dict bound to self._stats before it is filled, so that every store
\* into data shows through the attribute.
StatsWhileBuildingShared(cur, data) == {data}

\* self._stats while _update_share_status stores into its local data: the
\* attribute is not bound to data before line 222, so it keeps its value.
StatsWhileBuilding(cur, data) == cur

\* Some other thread is inside _update_share_status.
Refreshing(t) ==
    \E u \in Threads \ {t} : gss[u].pc \in {"update", "assign"}

\* Thread t enters get_share_stats(refresh); with refresh it enters
\* _update_share_status and binds data = {} (without a configuration
\* the lookup of safe_get on None raises).
gss_call(t, refresh) ==
    /\ gss[t].pc \in {"idle", "done"}
    /\ gss' = [gss EXCEPT ![t] =
                 IF refresh /\ ~configuration.given
                 THEN [pc |-> "done", refresh |-> refresh, written |-> 0,
                       result |-> [kind |-> "raise", class |-> "AttributeError",
                                   value |-> {}, overlap |-> Refreshing(t)]]
                 ELSE [pc |-> IF refresh THEN "update" ELSE "return",
                       refresh |-> refresh, written |-> 0, result |-> NoRead]]
    /\ UNCHANGED <<configuration, execVars, driverVars, peer>>

\* One store data[key] = value of _update_share_status.
gss_write(t) ==
    /\ gss[t].pc = "update"
    /\ LET n == gss[t].written + 1 IN
       /\ gss' = [gss EXCEPT ![t].written = n,
                             ![t].pc = IF n = Len(StatsKeys) THEN "assign"
                                       ELSE "update"]
       /\ stats' = StatsWhileBuilding(stats, DataAfter(configuration, n))
    /\ UNCHANGED <<configuration, execVars, backend, netCalls, call,
                   refreshed, reads, lifecycle, peer>>

\* self._stats = data
gss_assign(t) ==
    /\ gss[t].pc = "assign"
    /\ stats' = {DataAfter(configuration, gss[t].written)}
    /\ gss' = [gss EXCEPT ![t].pc = "return"]
    /\ UNCHANGED <<configuration, execVars, backend, netCalls, call,
                   refreshed, reads, lifecycle, peer>>

\* return self._stats
gss_return(t) ==
    /\ gss[t].pc = "return"
    /\ gss' = [gss EXCEPT ![t].pc = "done",
                          ![t].result =
                 IF stats = {}
                 THEN [kind |-> "raise", class |-> "AttributeError",
                       value |-> {}, overlap |-> Refreshing(t)]
                 ELSE [kind |-> "return", class |-> None,
                       value |-> stats, overlap |-> Refreshing(t)]]
    /\ UNCHANGED <<configuration, execVars, driverVars, peer>>

\* ------------------------------------------------ a second ShareDriver object
NoPeer == [configuration |-> NoConfiguration, stats |-> {}]

\* Configurations of two drivers compared with each other: every option
\* the module registers and reads varies.
PeerConfigurations ==
    [given : {TRUE},
     num_shell_tries : {1, 3},
     reserved_share_percentage : {0, 25},
     share_backend_name : {None, "", "backend_A"}]

\* get_share_stats(refresh) called on the second driver object.
peer_get_share_stats(refresh) ==
    LET noConf == refresh /\ ~peer.configuration.given
        after == IF noConf THEN peer.stats
                 ELSE StatsAfter(refresh, peer.stats, peer.configuration)
    IN
    /\ peer' = [peer EXCEPT !.stats = after]
    /\ UNCHANGED <<configuration, execVars, driverVars, gss>>

\* ------------------------------------------------------ initial conditions
ExecIdle ==
    /\ pc = [t \in Threads |-> "idle"]
    /\ tries = [t \in Threads |-> 0]
    /\ args = [t \in Threads |-> NoArgs]
    /\ trace = [t \in Threads |-> <<>>]
    /\ result = [t \in Threads |-> NoResult]

\* No get_share_stats call is running and there is no second driver.
SideIdle ==
    /\ gss = [t \in Threads |-> GssIdle]
    /\ peer = NoPeer

\* ShareDriver.__init__ sets configuration and network_api, never _stats.
DriverFresh ==
    /\ stats = {}
    /\ netCalls = <<>>
    /\ call = NoCall
    /\ refreshed = {}
    /\ reads = <<>>
    /\ lifecycle = NoLifecycle

ExecInit ==
    /\ configuration \in ExecConfigurations
    /\ backend = BaseBackend
    /\ ExecIdle
    /\ DriverFresh
    /\ SideIdle

\* A driver with the default configuration and any backend class.
NetworkInit ==
    /\ configuration = [given |-> TRUE, num_shell_tries |-> 3,
                        reserved_share_percentage |-> 0,
                        share_backend_name |-> None]
    /\ backend \in Backends
    /\ ExecIdle
    /\ DriverFresh
    /\ SideIdle

\* A driver with any configuration, on the base class or on a backend that
\* needs one network allocation.
DriverInit ==
    /\ configuration \in DriverConfigurations
    /\ backend \in {BaseBackend, [implemented |-> TRUE, number |-> 1]}
    /\ ExecIdle
    /\ DriverFresh
    /\ SideIdle

\* One driver whose get_share_stats is called from both threads.
RaceInit ==
    /\ configuration \in DriverConfigurations
    /\ backend = BaseBackend
    /\ ExecIdle
    /\ DriverFresh
    /\ SideIdle

\* Two driver objects, each with a configuration of its own.
PeersInit ==
    /\ configuration \in PeerConfigurations
    /\ backend = BaseBackend
    /\ ExecIdle
    /\ DriverFresh
    /\ gss = [t \in Threads |-> GssIdle]
    /\ peer \in [configuration : PeerConfigurations, stats : {{}}]

\* A backend that uses share servers: its number of allocations is >= 1.
LifecycleInit ==
    /\ configuration \in {c \in DriverConfigurations :
                             c.given /\ c.share_backend_name = None
                             /\ c.reserved_share_percentage = 0}
    /\ backend \in [implemented : {TRUE}, number : BackendNumbers \ {0}]
    /\ ExecIdle
    /\ DriverFresh
    /\ SideIdle

ExecNext ==
    \/ \E t \in Threads, c \in Commands, k \in ExecKwargs : try_execute(t, c, k)
    \/ \E t \in Threads, o \in Outcomes : execute(t, o)
    \/ \E t \in Threads : sleep(t)

\* The network allocation operations, with arguments from the given sets.
NetworkOps(contexts, servers, networks, counts, kwargs) ==
    \/ \E c \in contexts, s \in servers, n \in networks,
          k \in counts, kw \in kwargs, o \in NetOutcomes :
          allocate_network(c, s, n, k, kw, o, MaxNetCalls)
    \/ \E c \in contexts, s \in servers, o \in NetOutcomes :
          deallocate_network(c, s, o, MaxNetCalls)

\* The share-server lifecycle: the hook, the allocation pair and the
\* setup/teardown pair, with every argument.
NetworkNext ==
    \/ get_network_allocations_number
    \/ setup_server
    \/ teardown_server
    \/ NetworkOps(Contexts, ShareServers, ShareNetworks, Counts, ExtraKwargs)

\* Every operation of ShareDriver; the allocation pair with one argument
\* vector (count left to the backend).
DriverNext ==
    \/ create_share
    \/ create_share_from_snapshot
    \/ create_snapshot
    \/ delete_share
    \/ delete_snapshot
    \/ ensure_share
    \/ allow_access
    \/ deny_access
    \/ check_for_setup_error
    \/ do_setup
    \/ setup_server
    \/ teardown_server
    \/ get_network_allocations_number
    \/ \E refresh \in BOOLEAN : get_share_stats(refresh)
    \/ NetworkOps({"ctx_admin"}, {"server_1"}, {"share_net_1"},
                  {NoCount}, {{}})

SpecExec == ExecInit /\ [][ExecNext]_vars

\* Every invocation of the primitive returns or fails, and every sleep
\* ends: a call that is inside the loop takes its next step.
SpecExecFair ==
    /\ ExecInit
    /\ [][ExecNext]_vars
    /\ \A t \in Threads :
          /\ WF_vars(\E o \in Outcomes : execute(t, o))
          /\ WF_vars(sleep(t))

SpecNetwork == NetworkInit /\ [][NetworkNext]_vars

SpecDriver == DriverInit /\ [][DriverNext]_vars

\* The four lifecycle operations of a share server, for every server, with
\* count left to the backend, in any order and any number of times.
LifecycleNext ==
    \/ setup_server
    \/ teardown_server
    \/ \E s \in ShareServers, o \in NetOutcomes :
          allocate_network("ctx_admin", s, "share_net_1", NoCount, {}, o,
                           MaxLifecycleCalls)
    \/ \E s \in ShareServers, o \in NetOutcomes :
          deallocate_network("ctx_admin", s, o, MaxLifecycleCalls)

SpecLifecycle == LifecycleInit /\ [][LifecycleNext]_vars

\* get_share_stats calls of two threads, interleaved between statements.
RaceNext ==
    \/ \E t \in Threads, refresh \in BOOLEAN : gss_call(t, refresh)
    \/ \E t \in Threads : gss_write(t)
    \/ \E t \in Threads : gss_assign(t)
    \/ \E t \in Threads : gss_return(t)

SpecRace == RaceInit /\ [][RaceNext]_vars

\* get_share_stats on either of two driver objects.
PeersNext ==
    \/ \E refresh \in BOOLEAN : get_share_stats(refresh)
    \/ \E refresh \in BOOLEAN : peer_get_share_stats(refresh)

SpecPeers == PeersInit /\ [][PeersNext]_vars

\* ------------------------------------------------- properties: _try_execute
Transient == "ProcessExecutionError"

\* The invocations of the primitive made so far by the call of thread t.
Execs(t) == SelectSeq(trace[t], LAMBDA e : e.kind = "execute")

\* The sleeps made so far by the call of thread t.
Sleeps(t) == SelectSeq(trace[t], LAMBDA e : e.kind = "sleep")

\* Number of sleep events among the first i events of the call of thread t.
SleepsUpTo(t, i) == Cardinality({j \in 1..i : trace[t][j].kind = "sleep"})

Finished(t) == pc[t] \in {"returned", "raised"}

AllTransient(t) == \A i \in 1..Len(Execs(t)) : Execs(t)[i].outcome = Transient

\* Every invocation but the last failed transiently.
TransientBeforeLast(t) ==
    \A i \in 1..(Len(Execs(t)) - 1) : Execs(t)[i].outcome = Transient

Configured == configuration.given /\ configuration.num_shell_tries >= 1

\* C1: with num_shell_tries = N >= 1 and a primitive that fails with
\* ProcessExecutionError on every invocation, a call of _try_execute invokes
\* the primitive at most N times, has ended once it has invoked it N times,
\* ends only by raising the ProcessExecutionError of the N-th (last) attempt,
\* and never returns True.
C1_RetryBoundExhausted ==
    \A t \in Threads :
        (Configured /\ AllTransient(t)) =>
            LET n == configuration.num_shell_tries IN
            /\ Len(Execs(t)) <= n
            /\ pc[t] # "returned"
            /\ result[t].kind # "return"
            /\ (Len(Execs(t)) = n =>
                    pc[t] = "raised" /\ result[t] = Raise(Transient, n))
            /\ (Finished(t) =>
                    Len(Execs(t)) = n /\ result[t] = Raise(Transient, n))

\* C1 witness: a call that failed on each of N >= 2 attempts and then raised.
C1_Witness ==
    \E t \in Threads :
        /\ Configured /\ configuration.num_shell_tries >= 2
        /\ pc[t] = "raised" /\ AllTransient(t)
        /\ Len(Execs(t)) = configuration.num_shell_tries

\* C2: when the primitive fails transiently K < N times and then succeeds,
\* _try_execute returns True after exactly K+1 invocations, each of which
\* received the command and keyword options of the call; fewer than N
\* transient failures never end the call with a raise.
C2_SuccessAfterRetries ==
    \A t \in Threads :
        LET ex == Execs(t)
            k == Len(ex) - 1
        IN
        /\ (Len(ex) > 0 /\ ex[Len(ex)].outcome = "ok") =>
               /\ pc[t] = "returned"
               /\ result[t] = ReturnTrue
               /\ TransientBeforeLast(t)
               /\ (k >= 1 => configuration.given /\ k < configuration.num_shell_tries)
        /\ pc[t] = "returned" => (Len(ex) > 0 /\ ex[Len(ex)].outcome = "ok")
        /\ \A i \in 1..Len(ex) :
               ex[i].command = args[t].command /\ ex[i].kwargs = args[t].kwargs
        /\ (Configured /\ pc[t] = "raised" /\ result[t].class = Transient) =>
               Len(ex) >= configuration.num_shell_tries

\* C2 witness: K = N - 1 >= 1 transient failures, then success.
C2_Witness ==
    \E t \in Threads :
        /\ Configured
        /\ pc[t] = "returned"
        /\ Len(Execs(t)) = configuration.num_shell_tries
        /\ Len(Execs(t)) >= 2
        /\ args[t].kwargs # {}

\* C3: an invocation that fails with a failure other than
\* ProcessExecutionError is the last event of the call: the call has raised
\* that failure, no invocation and no sleep follows, and the number of
\* invocations is the number of earlier transient failures plus one.
C3_NonTransientFailsFast ==
    \A t \in Threads :
        \A i \in 1..Len(trace[t]) :
            (trace[t][i].kind = "execute" /\ trace[t][i].outcome = "OtherError") =>
                /\ i = Len(trace[t])
                /\ pc[t] = "raised"
                /\ result[t] = Raise("OtherError", Len(Execs(t)))
                /\ TransientBeforeLast(t)
                /\ Len(Sleeps(t)) = Len(Execs(t)) - 1

\* C3 witness: a non-transient failure after one transient failure, under a
\* configuration that would have allowed a further attempt.
C3_Witness ==
    \E t \in Threads :
        /\ Configured /\ configuration.num_shell_tries >= 3
        /\ pc[t] = "raised" /\ result[t].class = "OtherError"
        /\ Len(Execs(t)) = 2

\* C4: the n-th sleep of a call lasts n*n time units; every sleep directly
\* follows a transiently failed invocation and is followed by the next
\* invocation; a call that has ended did not end on a sleep; with
\* num_shell_tries = 3 and a command that always fails the sleeps are 1, 4.
C4_BackoffSquares ==
    \A t \in Threads :
        /\ \A i \in 1..Len(trace[t]) :
               trace[t][i].kind = "sleep" =>
                   /\ trace[t][i].secs = SleepsUpTo(t, i) * SleepsUpTo(t, i)
                   /\ i > 1
                   /\ trace[t][i - 1].kind = "execute"
                   /\ trace[t][i - 1].outcome = Transient
                   /\ IF i < Len(trace[t])
                      THEN trace[t][i + 1].kind = "execute"
                      ELSE pc[t] = "execute"
        /\ \A i, j \in 1..Len(Sleeps(t)) :
               i < j => Sleeps(t)[i].secs < Sleeps(t)[j].secs
        /\ (Finished(t) /\ Len(trace[t]) > 0) =>
               trace[t][Len(trace[t])].kind = "execute"
        /\ pc[t] = "sleep" =>
               (Len(trace[t]) > 0 /\ trace[t][Len(trace[t])].kind = "execute"
                   /\ trace[t][Len(trace[t])].outcome = Transient)
        /\ (configuration.given /\ configuration.num_shell_tries = 3
               /\ Finished(t) /\ AllTransient(t)) =>
               Sleeps(t) = <<SleepEvent(1), SleepEvent(4)>>

\* C4 witness: num_shell_tries = 3, three failed attempts, sleeps 1 then 4.
C4_Witness ==
    \E t \in Threads :
        /\ configuration.given /\ configuration.num_shell_tries = 3
        /\ pc[t] = "raised" /\ AllTransient(t)
        /\ Len(Sleeps(t)) = 2

\* --------------------------------------------------- properties: ShareDriver
AbstractOps ==
    {"create_share", "create_share_from_snapshot", "create_snapshot",
     "delete_share", "delete_snapshot", "ensure_share", "allow_access",
     "deny_access"}

\* The backend's get_network_allocations_number() returns 0.
ZeroBackend == backend.implemented /\ backend.number = 0

\* The backend's get_network_allocations_number() returns n >= 1.
PositiveBackend == backend.implemented /\ backend.number >= 1

\* The latest call is allocate_network without a count, or with count 0.
AllocateWithoutCount ==
    call.op = "allocate_network" /\ call.args.count \in {NoCount, {0}}

\* C5 as claimed: on a backend whose get_network_allocations_number() is 0
\* the network service is never invoked, whatever the arguments.
C5_Original_ZeroBackendNeverCallsNetwork ==
    ZeroBackend => netCalls = <<>>

\* C5 (amended): on a backend whose get_network_allocations_number() is 0,
\* a deallocate_network call, and an allocate_network call whose count is
\* not supplied or is 0, never invokes the network service: the only calls
\* that reach it are allocate_network calls with a caller-supplied non-zero
\* count.
C5_ZeroBackendGuard ==
    [][ZeroBackend =>
          /\ (call'.op = "deallocate_network" => netCalls' = netCalls)
          /\ (AllocateWithoutCount' => netCalls' = netCalls)
          /\ (netCalls' # netCalls =>
                 /\ call'.op = "allocate_network"
                 /\ call'.args.count \notin {NoCount, {0}})]_vars

\* C5 witness: allocate_network without a count has returned on such a
\* backend and the network service has seen no call.
C5_Witness ==
    /\ ZeroBackend
    /\ call.op = "allocate_network" /\ call.args.count = NoCount
    /\ call.outcome = ReturnedNone
    /\ netCalls = <<>>

\* C6: on a backend whose get_network_allocations_number() is n >= 1, a call
\* of allocate_network without a count adds exactly one call
\* network_api.allocate_network(context, share_server, share_network,
\* count=n, **extra) with the caller's values.
C6_CountPropagation ==
    [][(PositiveBackend /\ call'.op = "allocate_network"
           /\ call'.args.count = NoCount) =>
          netCalls' = Append(netCalls,
              [op |-> "allocate_network",
               context |-> call'.args.context,
               share_server |-> call'.args.share_server,
               share_network |-> call'.args.share_network,
               kwargs |-> call'.args.kwargs \cup {<<"count", backend.number>>}])]_vars

\* C6 witness: the backend number is 3, the caller gave extra keyword
\* arguments and no count, and the service received count = 3.
C6_Witness ==
    /\ backend.implemented /\ backend.number = 3
    /\ call.op = "allocate_network" /\ call.args.count = NoCount
    /\ call.args.kwargs # {}
    /\ Len(netCalls) = 1
    /\ <<"count", 3>> \in netCalls[1].kwargs

\* C7: the cached snapshot is the one the latest completed refresh computed
\* (no other operation changes it), and get_share_stats returns it.
C7_StatsOnlyChangedByRefresh ==
    /\ stats = refreshed
    /\ (call.op = "get_share_stats" /\ call.outcome.kind = "return") =>
          (call.outcome.value = refreshed /\ refreshed # {})
    /\ (call.op = "get_share_stats" /\ call.outcome.kind = "raise") =>
          (IF call.args.refresh THEN ~configuration.given ELSE refreshed = {})

\* C7 witness: after a refresh and a call that reached the network service,
\* get_share_stats(refresh=False) returned the snapshot.
C7_Witness ==
    /\ call.op = "get_share_stats" /\ ~call.args.refresh
    /\ call.outcome.kind = "return"
    /\ Len(netCalls) > 0

\* C8: two calls get_share_stats(refresh=False) with no refresh between
\* them end the same way and return the same snapshot.
C8_CacheReuse ==
    Len(reads) = 2 => reads[1] = reads[2]

\* C8 witness: two reads since the latest refresh, both returning a snapshot.
C8_Witness ==
    /\ Len(reads) = 2
    /\ reads[1].kind = "return" /\ reads[2].kind = "return"
    /\ call.op = "get_share_stats"

\* The snapshot of C9 for a given share_backend_name entry.
C9_Snapshot(name) ==
    [share_backend_name |-> name,
     vendor_name |-> "Open Source",
     driver_version |-> "1.0",
     storage_protocol |-> None,
     total_capacity_gb |-> "infinite",
     free_capacity_gb |-> "infinite",
     reserved_percentage |-> 0,
     QoS_support |-> FALSE]

RefreshReturned ==
    /\ configuration.given
    /\ call.op = "get_share_stats" /\ call.args.refresh

\* C9 as claimed: a refresh returns the fixed snapshot with
\* share_backend_name 'Generic_NFS' when the option is not set and the
\* configured value whenever it is set.
C9_Original_StatsDefault ==
    RefreshReturned =>
        call.outcome = Returned(C9_Snapshot(
            IF configuration.share_backend_name = None THEN "Generic_NFS"
            ELSE configuration.share_backend_name))

\* C9 (amended): a refresh returns the fixed snapshot with
\* share_backend_name 'Generic_NFS' when the option is not set or is the
\* empty string, and the configured value when it is a non-empty string.
C9_StatsDefault ==
    RefreshReturned =>
        /\ call.outcome = Returned(C9_Snapshot(
               IF configuration.share_backend_name \in {None, ""}
               THEN "Generic_NFS"
               ELSE configuration.share_backend_name))
        /\ stats = call.outcome.value

\* C9 witness: a refresh has returned under a configured, non-empty name.
C9_Witness ==
    /\ RefreshReturned
    /\ configuration.share_backend_name = "backend_A"
    /\ call.outcome.kind = "return"

\* The latest call is an operation the base class leaves abstract.
AbstractCall ==
    \/ call.op \in AbstractOps
    \/ call.op = "get_network_allocations_number" /\ ~backend.implemented

\* C10: every abstract operation of the base class, called in any state,
\* raises NotImplementedError, adds no call of the network service and
\* leaves the cached snapshot as it was.
C10_AbstractOperationsFail ==
    [][AbstractCall' =>
          /\ call'.outcome = Raised("NotImplementedError")
          /\ netCalls' = netCalls
          /\ stats' = stats]_vars

\* C10 witness: create_share has failed on a driver that holds a snapshot
\* and has used the network service.
C10_Witness ==
    /\ call.op = "create_share"
    /\ call.outcome = Raised("NotImplementedError")
    /\ stats # {}
    /\ Len(netCalls) > 0

\* The entry deallocate_network leaves at the network service for the
\* driver call recorded in c.
DeallocateEntry(c) ==
    [op |-> "deallocate_network", context |-> c.args.context,
     share_server_id |-> c.args.share_server_id]

\* The entry allocate_network leaves at the network service for the driver
\* call recorded in c, with count = n.
AllocateEntry(c, n) ==
    [op |-> "allocate_network", context |-> c.args.context,
     share_server |-> c.args.share_server,
     share_network |-> c.args.share_network,
     kwargs |-> {p \in c.args.kwargs : p[1] # "count"} \cup {<<"count", n>>}]

\* C11 (as stated): every network_api.deallocate_network call comes after
\* a network_api.allocate_network call of the same backend.
C11_Original_DeallocateOnlyAfterAllocate ==
    \A i \in 1..Len(netCalls) :
        netCalls[i].op = "deallocate_network" =>
            \E j \in 1..(i - 1) : netCalls[j].op = "allocate_network"

\* C11 (amended): deallocate_network invokes
\* network_api.deallocate_network(context, share_server_id) exactly once
\* when the backend's get_network_allocations_number() is non-zero, whether
\* or not any allocate_network call came before, and does not invoke it when
\* that number is 0 or the backend does not implement it.
C11_DeallocateGuard ==
    [][call'.op = "deallocate_network" =>
          IF PositiveBackend
          THEN netCalls' = Append(netCalls, DeallocateEntry(call'))
          ELSE netCalls' = netCalls]_vars

\* C11 witness: on a backend with a non-zero number the first call that
\* reached the network service is a deallocation.
C11_Witness ==
    /\ PositiveBackend
    /\ call.op = "deallocate_network"
    /\ netCalls = <<DeallocateEntry(call)>>

\* C12: allocate_network with a caller-supplied count does not consult
\* get_network_allocations_number(): a non-zero count gives exactly one
\* network_api.allocate_network call with that count, a count of 0 gives
\* none and returns None, whatever the backend's number. Without a count
\* the service is invoked if and only if the backend's number is non-zero.
C12_ExplicitCountBypassesBackend ==
    [][call'.op = "allocate_network" =>
          LET count == call'.args.count IN
          /\ (count # NoCount /\ count # {0} =>
                 /\ \E n \in count :
                       netCalls' = Append(netCalls, AllocateEntry(call', n))
                 /\ call'.outcome # Raised("NotImplementedError"))
          /\ (count = {0} =>
                 /\ netCalls' = netCalls
                 /\ call'.outcome = ReturnedNone)
          /\ (count = NoCount =>
                 (netCalls' # netCalls <=> PositiveBackend))]_vars

\* C12 witness: one call with count 2 on a backend whose number is 3 has
\* reached the service with count = 2, and one with count 0 on a backend
\* whose number is non-zero has returned without reaching it.
C12_Witness ==
    /\ backend.implemented /\ backend.number = 3
    /\ Len(netCalls) = 1
    /\ netCalls[1].op = "allocate_network"
    /\ <<"count", 2>> \in netCalls[1].kwargs
    /\ call.op = "allocate_network" /\ call.args.count = {0}
    /\ call.outcome = ReturnedNone

\* C13: when the network service fails, the driver call raises that same
\* failure; the service has been invoked exactly once by that driver call,
\* with the operation the caller asked for and nothing after it (no retry,
\* no compensating deallocation), and self._stats is unchanged.
C13_NetworkFailurePropagates ==
    [][call'.net = "NetworkError" =>
          /\ call'.outcome = Raised("NetworkError")
          /\ Len(netCalls') = Len(netCalls) + 1
          /\ SubSeq(netCalls', 1, Len(netCalls)) = netCalls
          /\ netCalls'[Len(netCalls')].op = call'.op
          /\ stats' = stats]_vars

\* C13 witness: with a snapshot cached, allocate_network has raised the
\* failure of the service, whose log holds that one allocation call.
C13_Witness ==
    /\ call.op = "allocate_network"
    /\ call.outcome = Raised("NetworkError")
    /\ stats # {}
    /\ Len(netCalls) = 1
    /\ netCalls[1].op = "allocate_network"

\* What one lifecycle of share server s leaves at the network service on a
\* backend whose number of allocations is n.
LifecycleCalls(s, n) ==
    <<[op |-> "allocate_network", context |-> "ctx_admin",
       share_server |-> s, share_network |-> "share_net_1",
       kwargs |-> {<<"count", n>>}],
      [op |-> "deallocate_network", context |-> "ctx_admin",
       share_server_id |-> s]>>

\* C14: on a backend whose number of allocations is n >= 1, from
\* allocate_network through setup_server and teardown_server the network
\* service has received, after what it had received before, exactly one
\* allocate_network call for that server with count = n, and once
\* deallocate_network has returned exactly one deallocate_network call for
\* that server follows it; the effect is the same whatever lifecycles ran
\* before.
C14_LifecycleCalls ==
    LET lc == lifecycle
        tail == SubSeq(netCalls, lc.mark + 1, Len(netCalls))
        expected == LifecycleCalls(lc.server, backend.number)
    IN
    /\ lc.phase \in 1..3 => tail = SubSeq(expected, 1, 1)
    /\ lc.phase = 4 => tail = expected
    /\ lc.phase # 0 => PositiveBackend

\* C14 witness: the lifecycle of one server has run twice in a row and the
\* service has received the same two calls each time.
C14_Witness ==
    /\ lifecycle.phase = 4
    /\ lifecycle.mark = 2
    /\ SubSeq(netCalls, 1, 2) = SubSeq(netCalls, 3, 4)
    /\ netCalls[1].share_server = lifecycle.server

\* The snapshot a refresh computes under the driver's configuration.
FreshSnapshot ==
    C9_Snapshot(IF configuration.share_backend_name \in {None, ""}
                THEN "Generic_NFS"
                ELSE configuration.share_backend_name)

\* C15: get_share_stats(refresh=False) on a driver on which no refresh has
\* completed raises AttributeError and changes nothing of the driver or of
\* the network service; a refresh that comes after such a failed read, on a
\* driver constructed with a configuration, returns the freshly computed
\* snapshot and caches it.
C15_ReadBeforeRefreshFails ==
    [][/\ (call'.op = "get_share_stats" /\ ~call'.args.refresh
             /\ refreshed = {}) =>
             /\ call'.outcome = Raised("AttributeError")
             /\ stats' = stats
             /\ refreshed' = refreshed
             /\ netCalls' = netCalls
             /\ configuration' = configuration
             /\ backend' = backend
       /\ ((\E i \in 1..Len(reads) : reads[i].kind = "raise")
             /\ call'.op = "get_share_stats" /\ call'.args.refresh
             /\ configuration.given) =>
             /\ call'.outcome = Returned(FreshSnapshot)
             /\ stats' = {FreshSnapshot}]_vars

\* C15 witness: on a configured driver that has served other calls, a read
\* has failed and nothing is cached.
C15_Witness ==
    /\ configuration.given
    /\ call.op = "get_share_stats" /\ ~call.args.refresh
    /\ call.outcome = Raised("AttributeError")
    /\ stats = {}
    /\ Len(netCalls) > 0

\* The operations whose body in the base class is pass.
PassOps == {"check_for_setup_error", "do_setup", "setup_server",
            "teardown_server"}

\* C18: check_for_setup_error, do_setup, setup_server and teardown_server
\* return None in every state, whatever allocate_network and
\* deallocate_network calls came before, and change neither the log of the
\* network service, nor the log of the execution primitive, nor the cached
\* snapshot.
C18_PassOperations ==
    [][call'.op \in PassOps =>
          /\ call'.outcome = ReturnedNone
          /\ netCalls' = netCalls
          /\ trace' = trace
          /\ stats' = stats]_vars

\* C18 witness: teardown_server has returned on a driver that never
\* allocated a network and holds a cached snapshot.
C18_Witness ==
    /\ call.op = "teardown_server"
    /\ call.outcome = ReturnedNone
    /\ netCalls = <<>>
    /\ stats # {}

\* A value of self._stats or of a get_share_stats result is a complete
\* snapshot: all eight fields, with the values a refresh computes.
CompleteSnapshot(v) ==
    /\ DOMAIN v = {StatsKeys[i] : i \in 1..Len(StatsKeys)}
    /\ \A k \in DOMAIN v : v[k] = FreshSnapshot[k]

\* C16: with get_share_stats calls of two threads interleaved statement by
\* statement, every value a call returns, and every value self._stats
\* holds while _update_share_status is filling its dict, is a complete
\* snapshot of eight fields: the dict becomes visible only through the
\* single assignment self._stats = data.
C16_NoPartialSnapshot ==
    /\ \A v \in stats : CompleteSnapshot(v)
    /\ \A t \in Threads :
          gss[t].result.kind = "return" =>
             /\ gss[t].result.value # {}
             /\ \A v \in gss[t].result.value : CompleteSnapshot(v)

\* C16 witness: a reader has returned a snapshot while the other thread
\* was part-way through filling the dict of a new refresh.
C16_Witness ==
    \E t \in Threads, u \in Threads :
        /\ t # u
        /\ ~gss[t].refresh
        /\ gss[t].result.kind = "return" /\ gss[t].result.overlap
        /\ gss[u].pc = "update" /\ gss[u].written \in 1..7

\* C17: two drivers whose configurations agree on share_backend_name
\* compute equal snapshots whatever their other options are, with
\* reserved_percentage = 0 in both; and a refresh on a driver that has
\* refreshed before returns the snapshot of the earlier refresh.
C17_SnapshotDependsOnNameOnly ==
    [][/\ (stats' # {} /\ peer'.stats # {}
             /\ configuration.share_backend_name
                  = peer.configuration.share_backend_name) =>
             /\ stats' = peer'.stats
             /\ \A v \in stats' \cup peer'.stats : v.reserved_percentage = 0
       /\ (refreshed # {} /\ call'.op = "get_share_stats"
             /\ call'.args.refresh) =>
             call'.outcome.value = refreshed]_vars

\* C17 witness: both drivers have refreshed under configurations that
\* agree on share_backend_name and differ in reserved_share_percentage
\* and in num_shell_tries, and hold equal snapshots.
C17_Witness ==
    /\ stats # {} /\ peer.stats # {}
    /\ stats = peer.stats
    /\ configuration.share_backend_name = peer.configuration.share_backend_name
    /\ configuration.reserved_share_percentage
          # peer.configuration.reserved_share_percentage
    /\ configuration.num_shell_tries # peer.configuration.num_shell_tries
    /\ call.op = "get_share_stats" /\ call.args.refresh

\* max(1, n)
AtLeastOne(n) == IF n >= 1 THEN n ELSE 1

\* What C19 bounds for the call of thread t, in every state.
C19_Bounded(t) ==
    configuration.given =>
        LET n == configuration.num_shell_tries IN
        /\ Len(Execs(t)) <= AtLeastOne(n)
        /\ (Finished(t) => Len(Execs(t)) >= 1)
        /\ (n <= 1 /\ Len(Execs(t)) >= 1
               /\ Execs(t)[1].outcome = Transient) =>
               /\ pc[t] = "raised"
               /\ result[t] = Raise(Transient, 1)
               /\ Len(Execs(t)) = 1
               /\ Sleeps(t) = <<>>

\* C19: for every value of num_shell_tries, 0 and negative values
\* included, a call of _try_execute whose invocations of the primitive
\* each return or fail ends, after at least one and at most
\* max(1, num_shell_tries) invocations; with num_shell_tries <= 1 a
\* transient failure of the first invocation is raised at once, with no
\* sleep.
C19_TerminatesForEveryLimit ==
    /\ [](\A t \in Threads : C19_Bounded(t))
    /\ \A t \in Threads : (pc[t] \in {"execute", "sleep"}) ~> Finished(t)

\* C19 witness: under num_shell_tries <= 0 a call has raised the transient
\* failure of its first and only invocation without sleeping.
C19_Witness ==
    \E t \in Threads :
        /\ configuration.given /\ configuration.num_shell_tries <= 0
        /\ pc[t] = "raised"
        /\ result[t] = Raise(Transient, 1)
        /\ Len(Execs(t)) = 1
        /\ Sleeps(t) = <<>>

\* Number of transient failures among the invocations of the call of t.
TransientFailures(t) ==
    Cardinality({i \in 1..Len(Execs(t)) : Execs(t)[i].outcome = Transient})

\* C20: whatever other calls of _try_execute ran before or run at the same
\* time, the counter of a call counts the transient failures of that call
\* only, its first sleep lasts 1, it is still running only while it has
\* made fewer than num_shell_tries invocations, and it raises a transient
\* failure only at its own num_shell_tries-th invocation.
C20_CounterLocalToCall ==
    \A t \in Threads :
        /\ tries[t] = TransientFailures(t)
        /\ (Sleeps(t) # <<>> => Sleeps(t)[1].secs = 1)
        /\ Configured =>
              /\ (pc[t] \in {"execute", "sleep"} =>
                     Len(Execs(t)) < configuration.num_shell_tries)
              /\ (pc[t] = "raised" /\ result[t].class = Transient =>
                     result[t].attempt = configuration.num_shell_tries)

\* C20 witness: one call has used its full budget of N >= 2 attempts and
\* raised, while the call of the other thread, which failed once, sleeps
\* for 1 and has attempts left.
C20_Witness ==
    \E t \in Threads, u \in Threads :
        /\ t # u
        /\ Configured /\ configuration.num_shell_tries >= 3
        /\ pc[t] = "raised"
        /\ result[t] = Raise(Transient, configuration.num_shell_tries)
        /\ pc[u] = "execute" /\ tries[u] = 1
        /\ Sleeps(u) = <<SleepEvent(1)>>

====
